---- MODULE Spec2Model ----
(***************************************************************************)
(* A model of sivafs: a filesystem facade over one append-only siva        *)
(* archive.  The archive is a log of headers (entries and tombstones) with *)
(* their payloads; directories are never stored, they are computed from    *)
(* the names of the entries.  One sivaFS value owns the lazily opened      *)
(* archive session and the writer-busy flag fileWriteModeOpen.             *)
(*                                                                         *)
(* Paths are sequences of segments: "a/b/c" is <<"a","b","c">>, and the    *)
(* empty string (the root after normalisation) is <<>>.  Segments are      *)
(* literal names; the segment "*" in a glob pattern is the wildcard.       *)
(***************************************************************************)
EXTENDS Integers, Sequences, FiniteSets, TLC

VARIABLES
    fs,        \* the sivaFS struct: rw (non-nil?), f (non-nil?), fileWriteModeOpen,
               \* and underlying: the handles open on fs.path in fs.underlying
    writer,    \* the state of the siva writer behind fs.rw: current, closed
    archive,   \* the backing archive: the log of records, in append order
    files,     \* every file handle newFile has returned, in creation order
    now,       \* the clock time.Now() reads
    ret,       \* the last operation and what it returned
    lock,      \* sfs.lock of the locked facade: the caller holding it, 0 when free
    pc         \* where each caller of the locked facade is in its operation

vars == <<fs, writer, archive, files, now, ret, lock, pc>>

\* ---------------------------------------------------------------- bounds
MaxLog == 2      \* records in the archive (specification SpecW)
MaxLogS == 3     \* records in the archive (specification SpecS)
MaxLogD == 2     \* records in the archive (specification SpecD)
MaxLogF == 2     \* records in the archive (specification SpecF)
MaxData == 1     \* bytes written to one entry
MaxClock == 2    \* readings of the clock
MaxCallers == 2  \* concurrent callers (specification SpecL)

\* ----------------------------------------------------------------- flags
\* os.O_* as sets of bits: flag&bit != 0 is (flag \cap bit) # {}.
\* O_RDONLY is the number 0, so flag&O_RDONLY is never non-zero.
O_RDONLY == {}
O_WRONLY == {"WRONLY"}
O_RDWR == {"RDWR"}
O_CREATE == {"CREATE"}
O_TRUNC == {"TRUNC"}
O_APPEND == {"APPEND"}

Has(flag, bit) == (flag \cap bit) # {}

CreateFlag == O_WRONLY \cup O_CREATE \cup O_TRUNC
DefaultMode == "0666"

\* ----------------------------------------------------------------- paths
\* A caller's path: abs says whether it starts with "/", segs are its
\* slash-separated segments ("." and ".." among them).
RawPath(abs, segs) == [abs |-> abs, segs |-> segs]

RECURSIVE CleanSegs(_, _)
\* filepath.Clean of a rooted path: "." is dropped, ".." pops (and is
\* dropped at the root).
CleanSegs(segs, acc) ==
    IF segs = <<>> THEN acc
    ELSE LET s == Head(segs)
             up == IF acc = <<>> THEN acc ELSE SubSeq(acc, 1, Len(acc) - 1)
         IN  IF s = "." THEN CleanSegs(Tail(segs), acc)
             ELSE IF s = ".." THEN CleanSegs(Tail(segs), up)
             ELSE CleanSegs(Tail(segs), Append(acc, s))

\* filepath.Join("/", path): the path rooted at "/" and cleaned.
JoinRoot(raw) == RawPath(TRUE, CleanSegs(raw.segs, <<>>))

\* removeLeadingSlash: the string after the leading "/", if any.  The result
\* is used as an entry name, a sequence of segments ("/"[1:] is "").
removeLeadingSlash(path) == path.segs

\* normalizePath: filepath.Join("/", path), then the leading slash removed.
normalizePath(raw) == removeLeadingSlash(JoinRoot(raw))

\* The string a raw path is, compared with an entry name (a normalised
\* path): equal only when the raw path has no leading slash and the same
\* segments.
SameString(raw, name) == raw.abs = FALSE /\ raw.segs = name

\* addTrailingSlash: "" stays "", every other path ends with "/".
addTrailingSlash(path) == [segs |-> path, slash |-> path # <<>>]

\* fmt.Sprintf("%s" + tail, dir) and path.Join(dir, tail) for a dir that
\* addTrailingSlash returned: the segments of dir followed by those of tail.
PatternUnder(dir, tail) == dir.segs \o tail

\* The segments of a name as a string: the empty string is one empty segment.
StrSegs(name) == IF name = <<>> THEN <<"">> ELSE name

\* filepath.Match(pattern, name): "*" matches one whole segment (any run of
\* non-separator characters), a literal segment matches itself.
Match(pattern, name) ==
    LET s == StrSegs(name)
    IN  /\ Len(s) = Len(pattern)
        /\ \A i \in 1..Len(pattern) : pattern[i] = "*" \/ pattern[i] = s[i]

\* filepath.Dir of a name with at least one slash.
FilepathDir(name) == SubSeq(name, 1, Len(name) - 1)

\* path.Clean of a directory path: the empty path is ".".
PathClean(dir) == IF dir = <<>> THEN <<".">> ELSE dir

\* ----------------------------------------------------------- the archive
\* One record of the log: a header and the bytes written after it.
Record(name, mode, modTime, deleted) ==
    [name |-> name, mode |-> mode, modTime |-> modTime, deleted |-> deleted,
     data |-> <<>>]

\* rw.Index(): one index entry per record; the entry being written
\* (writer.current) has no size yet.
Index(log, current) ==
    [i \in 1..Len(log) |->
        [Name |-> log[i].name, Mode |-> log[i].mode, ModTime |-> log[i].modTime,
         Deleted |-> log[i].deleted, Start |-> i,
         Size |-> IF i = current THEN 0 ELSE Len(log[i].data)]]

RECURSIVE FilterFrom(_, _, _, _)
\* Index.Filter: from the newest entry to the oldest, keep the first entry
\* seen of each name unless it is a tombstone; the result is in log order.
FilterFrom(index, j, seen, acc) ==
    IF j = 0 THEN acc
    ELSE LET e == index[j]
         IN  IF e.Name \in seen THEN FilterFrom(index, j - 1, seen, acc)
             ELSE FilterFrom(index, j - 1, seen \cup {e.Name},
                             IF e.Deleted THEN acc ELSE <<e>> \o acc)

Filter(index) == FilterFrom(index, Len(index), {}, <<>>)

\* Index.Find: the position of the first entry named name, 0 for nil.
Find(index, name) ==
    IF \E k \in 1..Len(index) : index[k].Name = name
    THEN CHOOSE k \in 1..Len(index) :
            /\ index[k].Name = name
            /\ \A l \in 1..(k - 1) : index[l].Name # name
    ELSE 0

\* Index.Glob: the entries whose name matches the pattern, in index order.
Glob(index, pattern) == SelectSeq(index, LAMBDA e : Match(pattern, e.Name))

\* rw.Get(e) read to the end: the Size bytes stored from e.Start.
Get(log, e) == SubSeq(log[e.Start].data, 1, e.Size)

\* sivaFS.getIndex without the filter: what a getIndex that forgot
\* Filter() would return.
getIndex_Unfiltered(log, current) == Index(log, current)

\* sivaFS.getIndex: the filtered index of the session.
getIndex(log, current) == Filter(Index(log, current))

\* ------------------------------------------------------------ file infos
\* newFileInfo: the info of an entry.
newFileInfo(e) ==
    [isDir |-> FALSE, name |-> e.Name, mode |-> e.Mode, modTime |-> e.ModTime,
     size |-> e.Size]

\* newDirFileInfo: the info of a synthetic directory.
newDirFileInfo(path, modTime) ==
    [isDir |-> TRUE, name |-> path, mode |-> "dir", modTime |-> modTime,
     size |-> 0]

\* ------------------------------------------------- directory synthesis
\* listFiles that matches at any depth below dir: what a glob whose "*"
\* crossed the separator would return.
listFiles_Nested(index, dir) ==
    LET entries == SelectSeq(index,
                     LAMBDA e : /\ Len(e.Name) > Len(dir)
                                /\ SubSeq(e.Name, 1, Len(dir)) = dir)
    IN  [k \in 1..Len(entries) |-> newFileInfo(entries[k])]

\* listFiles: the infos of the entries matching dir + "*".
listFiles(index, dir) ==
    LET d == addTrailingSlash(dir)
        entries == Glob(index, PatternUnder(d, <<"*">>))
    IN  [k \in 1..Len(entries) |-> newFileInfo(entries[k])]

RECURSIVE OldDir(_, _, _)
\* The loop of getDir: the latest ModTime among entries[k..], from oldDir
\* (the zero time is 0).
OldDir(entries, k, oldDir) ==
    IF k > Len(entries) THEN oldDir
    ELSE OldDir(entries, k + 1,
                IF oldDir < entries[k].ModTime THEN entries[k].ModTime ELSE oldDir)

\* getDir: the directory at dir, <<info>>, or <<>> (nil) when no entry
\* matches path.Join(dir, "*").
getDir(index, dir) ==
    LET d == addTrailingSlash(dir)
        entries == Glob(index, PatternUnder(d, <<"*">>))
    IN  IF Len(entries) = 0 THEN <<>>
        ELSE <<newDirFileInfo(PathClean(d.segs), OldDir(entries, 1, 0))>>

RECURSIVE DirsMap(_, _, _)
\* The first loop of listDirs: dirs maps filepath.Dir(e.Name) to the latest
\* ModTime of the entries below it.
DirsMap(entries, k, dirs) ==
    IF k > Len(entries) THEN dirs
    ELSE LET e == entries[k]
             dir == FilepathDir(e.Name)
             put == dir \notin DOMAIN dirs \/ dirs[dir] < e.ModTime
         IN  DirsMap(entries, k + 1,
                     [x \in DOMAIN dirs \cup {dir} |->
                        IF x = dir /\ put THEN e.ModTime ELSE dirs[x]])

\* listDirs: one directory info per key of the map built from the entries
\* matching dir + "*/*".  The code ranges over a Go map, so the order of the
\* result is not fixed: this is the set, ReadDir picks an order.
listDirs(index, dir) ==
    LET d == addTrailingSlash(dir)
        entries == Glob(index, PatternUnder(d, <<"*", "*">>))
        dirs == DirsMap(entries, 1, [x \in {} |-> 0])
    IN  {newDirFileInfo(x, dirs[x]) : x \in DOMAIN dirs}

\* The orders in which a range over a map can yield the set S.
Orders(S) ==
    {s \in [1..Cardinality(S) -> S] :
        \A i, j \in 1..Cardinality(S) : i # j => s[i] # s[j]}

\* ---------------------------------------------------------- the session
\* The outcomes of the backing store: "ok", or the step that fails.
OpenOutcomes == {"ok", "openErr", "newErr"}
CloseOutcomes == {"ok", "rwCloseErr", "fCloseErr"}

NilWriter == [current |-> 0, closed |-> FALSE]

\* The writer of a reader/writer that rw.Close has closed.
ClosedWriter == [current |-> 0, closed |-> TRUE]

\* sivaFS.ensureOpen without the f.Close() of its second error path.
ensureOpen_Leak(s, w, io) ==
    LET opened == [s EXCEPT !.underlying = @ + 1]
    IN  IF s.rw THEN [err |-> "nil", fs |-> s, writer |-> w]
        ELSE IF io = "openErr" THEN [err |-> "EIO", fs |-> s, writer |-> w]
        ELSE IF io = "newErr" THEN [err |-> "EIO", fs |-> opened, writer |-> w]
        ELSE [err |-> "nil", fs |-> [opened EXCEPT !.rw = TRUE, !.f = TRUE],
              writer |-> NilWriter]

\* sivaFS.ensureOpen: nothing when fs.rw is set; otherwise open the backing
\* file and build the reader/writer, and keep both only when both succeed:
\* when the reader/writer cannot be built the file just opened is closed.
ensureOpen(s, w, io) ==
    LET opened == [s EXCEPT !.underlying = @ + 1]
    IN  IF s.rw THEN [err |-> "nil", fs |-> s, writer |-> w]
        ELSE IF io = "openErr" THEN [err |-> "EIO", fs |-> s, writer |-> w]
        ELSE IF io = "newErr"
        THEN [err |-> "EIO", fs |-> [opened EXCEPT !.underlying = @ - 1],
              writer |-> w]
        ELSE [err |-> "nil", fs |-> [opened EXCEPT !.rw = TRUE, !.f = TRUE],
              writer |-> NilWriter]

\* writer.Flush: ends the entry being written.
Flush(w) ==
    IF w.closed THEN [err |-> "ErrClosedWriter", writer |-> w]
    ELSE IF w.current = 0 THEN [err |-> "ErrMissingHeader", writer |-> w]
    ELSE [err |-> "nil", writer |-> [w EXCEPT !.current = 0]]

\* writer.flushIfPending.
flushIfPending(w) ==
    IF w.closed THEN [err |-> "ErrClosedWriter", writer |-> w]
    ELSE IF w.current = 0 THEN [err |-> "nil", writer |-> w]
    ELSE Flush(w)

\* writer.WriteHeader: ends the entry being written, then appends the
\* header to the log and makes it the entry being written.
WriteHeader(w, log, header) ==
    LET fl == flushIfPending(w)
    IN  IF fl.err # "nil" THEN [err |-> fl.err, writer |-> w, archive |-> log]
        ELSE [err |-> "nil",
              writer |-> [fl.writer EXCEPT !.current = Len(log) + 1],
              archive |-> Append(log, header)]

\* writer.Write of one byte: the byte goes to the entry being written.
WriterWrite(w, log, b) ==
    IF w.closed THEN [err |-> "ErrClosedWriter", archive |-> log]
    ELSE IF w.current = 0 THEN [err |-> "ErrMissingHeader", archive |-> log]
    ELSE [err |-> "nil",
          archive |-> [log EXCEPT ![w.current].data = Append(@, b)]]

\* rw.Close: the writer is closed whatever happens; the entry being written
\* is ended and the index written out.
rwClose(w, io) ==
    LET fl == flushIfPending(w)
        shut == [fl.writer EXCEPT !.closed = TRUE]
    IN  IF fl.err # "nil" THEN [err |-> fl.err, writer |-> shut]
        ELSE IF io = "rwCloseErr" THEN [err |-> "EIO", writer |-> shut]
        ELSE [err |-> "nil", writer |-> shut]

\* sivaFS.ensureClosed that forgets the backing file: fs.f stays set and
\* the file is not closed.
ensureClosed_KeepsFile(s, w, io) ==
    IF ~s.rw THEN [err |-> "nil", fs |-> s, writer |-> w, released |-> FALSE]
    ELSE LET c == rwClose(w, io)
         IN  IF c.err # "nil"
             THEN [err |-> c.err, fs |-> s, writer |-> c.writer,
                   released |-> FALSE]
             ELSE [err |-> "nil", fs |-> [s EXCEPT !.rw = FALSE],
                   writer |-> NilWriter, released |-> TRUE]

\* sivaFS.ensureClosed that gives fs.f up only after f.Close() succeeded:
\* when f.Close() fails the reader/writer is gone and fs.f stays set.
ensureClosed_HalfClosed(s, w, io) ==
    IF ~s.rw THEN [err |-> "nil", fs |-> s, writer |-> w, released |-> FALSE]
    ELSE LET c == rwClose(w, io)
         IN  IF c.err # "nil"
             THEN [err |-> c.err, fs |-> s, writer |-> c.writer,
                   released |-> FALSE]
             ELSE IF io = "fCloseErr"
             THEN [err |-> "EIO", fs |-> [s EXCEPT !.rw = FALSE],
                   writer |-> NilWriter, released |-> TRUE]
             ELSE [err |-> "nil",
                   fs |-> [s EXCEPT !.rw = FALSE, !.f = FALSE,
                                    !.underlying = @ - 1],
                   writer |-> NilWriter, released |-> TRUE]

\* sivaFS.ensureClosed: nothing when fs.rw is nil; otherwise close the
\* reader/writer, and when that succeeds drop it and close the backing file
\* (f.Close() gives the handle up also when it returns an error).
ensureClosed(s, w, io) ==
    IF ~s.rw THEN [err |-> "nil", fs |-> s, writer |-> w, released |-> FALSE]
    ELSE LET c == rwClose(w, io)
         IN  IF c.err # "nil"
             THEN [err |-> c.err, fs |-> s, writer |-> c.writer,
                   released |-> FALSE]
             ELSE [err |-> IF io = "fCloseErr" THEN "EIO" ELSE "nil",
                   fs |-> [s EXCEPT !.rw = FALSE, !.f = FALSE,
                                    !.underlying = @ - 1],
                   writer |-> NilWriter, released |-> TRUE]

\* ----------------------------------------------------------- file handles
\* newFile: a write handle.  w, the writer it holds, is the session's
\* reader/writer of the moment; stale says that reader/writer has since been
\* released by ensureClosed.  rec, mode and written record where its header
\* is in the log, the mode it was created with and the bytes it has written.
newFile(path, flag, mode, rec) ==
    [name |-> path, flag |-> flag, mode |-> mode, isClosed |-> FALSE,
     stale |-> FALSE, rec |-> rec, written |-> <<>>]

\* The closeFunc of createFile without its flush.
closeFunc_NoFlush(s, w, flag) ==
    IF ~s.rw THEN [err |-> "nil", fs |-> s, writer |-> w]
    ELSE [err |-> "nil",
          fs |-> IF Has(flag, O_WRONLY) \/ Has(flag, O_RDWR)
                 THEN [s EXCEPT !.fileWriteModeOpen = FALSE] ELSE s,
          writer |-> w]

\* The closeFunc of createFile: nothing when fs.rw is nil; otherwise the
\* flag is cleared for a handle opened O_WRONLY or O_RDWR and the session's
\* reader/writer is flushed.
closeFunc(s, w, flag) ==
    IF ~s.rw THEN [err |-> "nil", fs |-> s, writer |-> w]
    ELSE LET fl == Flush(w)
         IN  [err |-> fl.err,
              fs |-> IF Has(flag, O_WRONLY) \/ Has(flag, O_RDWR)
                     THEN [s EXCEPT !.fileWriteModeOpen = FALSE] ELSE s,
              writer |-> fl.writer]

\* sivaFS.createFile that leaves fileWriteModeOpen alone.
createFile_NoFlag(s, w, log, fls, path, flag, mode, t) ==
    IF Has(flag, O_RDWR) \/ Has(flag, O_RDONLY)
    THEN [err |-> "ErrNotSupported", fs |-> s, writer |-> w, archive |-> log,
          files |-> fls, val |-> 0]
    ELSE LET h == WriteHeader(w, log, Record(path, mode, t, FALSE))
         IN  IF h.err # "nil"
             THEN [err |-> h.err, fs |-> s, writer |-> w, archive |-> log,
                   files |-> fls, val |-> 0]
             ELSE [err |-> "nil", fs |-> s, writer |-> h.writer,
                   archive |-> h.archive,
                   files |-> Append(fls, newFile(path, flag, mode, Len(h.archive))),
                   val |-> Len(fls) + 1]

\* sivaFS.createFile that writes the default mode into every header.
createFile_DefaultMode(s, w, log, fls, path, flag, mode, t) ==
    IF Has(flag, O_RDWR) \/ Has(flag, O_RDONLY)
    THEN [err |-> "ErrNotSupported", fs |-> s, writer |-> w, archive |-> log,
          files |-> fls, val |-> 0]
    ELSE LET h == WriteHeader(w, log, Record(path, DefaultMode, t, FALSE))
         IN  IF h.err # "nil"
             THEN [err |-> h.err, fs |-> s, writer |-> w, archive |-> log,
                   files |-> fls, val |-> 0]
             ELSE [err |-> "nil", fs |-> [s EXCEPT !.fileWriteModeOpen = TRUE],
                   writer |-> h.writer, archive |-> h.archive,
                   files |-> Append(fls, newFile(path, flag, mode, Len(h.archive))),
                   val |-> Len(fls) + 1]

\* sivaFS.createFile that rewrites the header of an entry of the same name
\* in place instead of appending a new one.
createFile_Rewrite(s, w, log, fls, path, flag, mode, t) ==
    LET old == {k \in 1..Len(log) : log[k].name = path}
        k == CHOOSE x \in old : TRUE
        h == WriteHeader(w, log, Record(path, mode, t, FALSE))
    IN  IF Has(flag, O_RDWR) \/ Has(flag, O_RDONLY)
        THEN [err |-> "ErrNotSupported", fs |-> s, writer |-> w, archive |-> log,
              files |-> fls, val |-> 0]
        ELSE IF old # {}
        THEN [err |-> "nil", fs |-> [s EXCEPT !.fileWriteModeOpen = TRUE],
              writer |-> [w EXCEPT !.current = k],
              archive |-> [log EXCEPT ![k] = Record(path, mode, t, FALSE)],
              files |-> Append(fls, newFile(path, flag, mode, k)),
              val |-> Len(fls) + 1]
        ELSE IF h.err # "nil"
        THEN [err |-> h.err, fs |-> s, writer |-> w, archive |-> log,
              files |-> fls, val |-> 0]
        ELSE [err |-> "nil", fs |-> [s EXCEPT !.fileWriteModeOpen = TRUE],
              writer |-> h.writer, archive |-> h.archive,
              files |-> Append(fls, newFile(path, flag, mode, Len(h.archive))),
              val |-> Len(fls) + 1]

\* sivaFS.createFile: rejects O_RDWR; appends the header; returns a new
\* write handle (val is its number in files) and, on the way out, sets
\* fileWriteModeOpen.  The early returns come before the defer.
createFile(s, w, log, fls, path, flag, mode, t) ==
    IF Has(flag, O_RDWR) \/ Has(flag, O_RDONLY)
    THEN [err |-> "ErrNotSupported", fs |-> s, writer |-> w, archive |-> log,
          files |-> fls, val |-> 0]
    ELSE LET h == WriteHeader(w, log, Record(path, mode, t, FALSE))
         IN  IF h.err # "nil"
             THEN [err |-> h.err, fs |-> s, writer |-> w, archive |-> log,
                   files |-> fls, val |-> 0]
             ELSE [err |-> "nil", fs |-> [s EXCEPT !.fileWriteModeOpen = TRUE],
                   writer |-> h.writer, archive |-> h.archive,
                   files |-> Append(fls, newFile(path, flag, mode, Len(h.archive))),
                   val |-> Len(fls) + 1]

\* sivaFS.openFile: rejects O_RDWR and O_WRONLY; finds the entry in the
\* filtered index; val is what reading the returned handle to the end gives.
openFile(w, log, path, flag) ==
    IF Has(flag, O_RDWR) \/ Has(flag, O_WRONLY)
    THEN [err |-> "ErrNotSupported", val |-> <<>>]
    ELSE LET index == getIndex(log, w.current)
             e == Find(index, path)
         IN  IF e = 0 THEN [err |-> "ErrNotExist", val |-> <<>>]
             ELSE [err |-> "nil", val |-> Get(log, index[e])]

\* ------------------------------------------------------------ operations
NoInfo == [isDir |-> FALSE, name |-> <<>>, mode |-> "nil", modTime |-> 0,
           size |-> 0]

\* What an operation leaves in ret: its name, its (normalised) path, its
\* flags, the error and the value it returned, and n, the length of the
\* log when it was called.
Return(op, path, flag, err, val) ==
    [op |-> op, path |-> path, flag |-> flag, err |-> err, val |-> val,
     n |-> Len(archive)]

\* The body of sivaFS.Stat that asks for the directory first.
StatOf_DirFirst(index, p) ==
    LET stat == getDir(index, p)
        e == Find(index, p)
    IN  IF stat # <<>> THEN [err |-> "nil", val |-> stat[1]]
        ELSE IF e # 0 THEN [err |-> "nil", val |-> newFileInfo(index[e])]
        ELSE [err |-> "ErrNotExist", val |-> NoInfo]

\* The body of sivaFS.Stat on the filtered index: the entry named p, else
\* the directory getDir finds at p, else os.ErrNotExist.
StatOf(index, p) ==
    LET e == Find(index, p)
    IN  IF e # 0 THEN [err |-> "nil", val |-> newFileInfo(index[e])]
        ELSE LET stat == getDir(index, p)
             IN  IF stat = <<>> THEN [err |-> "ErrNotExist", val |-> NoInfo]
                 ELSE [err |-> "nil", val |-> stat[1]]

\* The body of sivaFS.Remove on the filtered index: "tombstone" when an
\* entry is named path, else ENOTEMPTY for a directory, else os.ErrNotExist.
RemoveOf(index, path) ==
    IF Find(index, path) # 0 THEN "tombstone"
    ELSE IF getDir(index, path) # <<>> THEN "ENOTEMPTY"
    ELSE "ErrNotExist"

\* sivaFS.OpenFile(path, flag, mode), reading the clock at t and the
\* backing store answering io.
OpenFile(raw, flag, mode, t, io) ==
    LET path == normalizePath(raw)
        o == ensureOpen(fs, writer, io)
        c == createFile(o.fs, o.writer, archive, files, path, flag, mode, t)
        r == openFile(o.writer, archive, path, flag)
    IN  IF Has(flag, O_CREATE) /\ ~Has(flag, O_TRUNC)
        THEN /\ ret' = Return("OpenFile", path, flag, "ErrNotSupported", 0)
             /\ UNCHANGED <<fs, writer, archive, files, now>>
        ELSE IF o.err # "nil"
        THEN /\ ret' = Return("OpenFile", path, flag, o.err, 0)
             /\ fs' = o.fs
             /\ writer' = o.writer
             /\ UNCHANGED <<archive, files, now>>
        ELSE IF Has(flag, O_CREATE) /\ o.fs.fileWriteModeOpen
        THEN /\ ret' = Return("OpenFile", path, flag,
                              "ErrFileWriteModeAlreadyOpen", 0)
             /\ fs' = o.fs
             /\ writer' = o.writer
             /\ UNCHANGED <<archive, files, now>>
        ELSE IF Has(flag, O_CREATE)
        THEN /\ ret' = Return("OpenFile", path, flag, c.err, c.val)
             /\ fs' = c.fs
             /\ writer' = c.writer
             /\ archive' = c.archive
             /\ files' = c.files
             /\ now' = IF c.err = "nil" THEN t ELSE now
        ELSE /\ ret' = Return("OpenFile", path, flag, r.err, r.val)
             /\ fs' = o.fs
             /\ writer' = o.writer
             /\ UNCHANGED <<archive, files, now>>

\* sivaFS.Create(path).
Create(raw, t, io) == OpenFile(raw, CreateFlag, DefaultMode, t, io)

\* sivaFS.Open(path).
Open(raw, io) == OpenFile(raw, O_RDONLY, "0", now, io)

\* sivaFS.Stat(p).
Stat(raw, io) ==
    LET p == normalizePath(raw)
        o == ensureOpen(fs, writer, io)
        r == StatOf(getIndex(archive, o.writer.current), p)
    IN  /\ ret' = IF o.err # "nil" THEN Return("Stat", p, {}, o.err, NoInfo)
                  ELSE Return("Stat", p, {}, r.err, r.val)
        /\ fs' = o.fs
        /\ writer' = o.writer
        /\ UNCHANGED <<archive, files, now>>

\* sivaFS.ReadDir(path): the directories, in the order the map yields them,
\* then the files.
ReadDir(raw, io) ==
    LET path == normalizePath(raw)
        o == ensureOpen(fs, writer, io)
        index == getIndex(archive, o.writer.current)
        fileInfos == listFiles(index, path)
    IN  /\ \E dirs \in Orders(listDirs(index, path)) :
              ret' = IF o.err # "nil" THEN Return("ReadDir", path, {}, o.err, <<>>)
                     ELSE Return("ReadDir", path, {}, "nil", dirs \o fileInfos)
        /\ fs' = o.fs
        /\ writer' = o.writer
        /\ UNCHANGED <<archive, files, now>>

\* sivaFS.MkdirAll(filename, perm): the name is looked up as given.
MkdirAll(raw, io) ==
    LET o == ensureOpen(fs, writer, io)
        index == getIndex(archive, o.writer.current)
        found == \E k \in 1..Len(index) : SameString(raw, index[k].Name)
    IN  /\ ret' = IF o.err # "nil" THEN Return("MkdirAll", raw, {}, o.err, 0)
                  ELSE IF found THEN Return("MkdirAll", raw, {}, "ENOTDIR", 0)
                  ELSE Return("MkdirAll", raw, {}, "nil", 0)
        /\ fs' = o.fs
        /\ writer' = o.writer
        /\ UNCHANGED <<archive, files, now>>

\* sivaFS.Remove(path), reading the clock at t.
Remove(raw, t, io) ==
    LET path == normalizePath(raw)
        o == ensureOpen(fs, writer, io)
        what == RemoveOf(getIndex(archive, o.writer.current), path)
        h == WriteHeader(o.writer, archive, Record(path, "0", t, TRUE))
    IN  IF o.err # "nil"
        THEN /\ ret' = Return("Remove", path, {}, o.err, 0)
             /\ fs' = o.fs
             /\ writer' = o.writer
             /\ UNCHANGED <<archive, files, now>>
        ELSE IF what = "tombstone"
        THEN /\ ret' = Return("Remove", path, {}, h.err, 0)
             /\ fs' = o.fs
             /\ writer' = h.writer
             /\ archive' = h.archive
             /\ now' = IF h.err = "nil" THEN t ELSE now
             /\ UNCHANGED files
        ELSE /\ ret' = Return("Remove", path, {}, what, 0)
             /\ fs' = o.fs
             /\ writer' = o.writer
             /\ UNCHANGED <<archive, files, now>>

\* sivaFS.Rename(from, to).
Rename ==
    /\ ret' = Return("Rename", <<>>, {}, "ErrNotSupported", 0)
    /\ UNCHANGED <<fs, writer, archive, files, now>>

\* sivaFS.Sync(): ensureClosed.  The handles still open keep the reader/
\* writer that was released.
Sync(io) ==
    LET c == ensureClosed(fs, writer, io)
    IN  /\ ret' = Return("Sync", <<>>, {}, c.err, 0)
        /\ fs' = c.fs
        /\ writer' = c.writer
        /\ files' = [k \in 1..Len(files) |->
                        IF c.released /\ ~files[k].isClosed
                        THEN [files[k] EXCEPT !.stale = TRUE] ELSE files[k]]
        /\ UNCHANGED <<archive, now>>

\* file.Write of one byte b through handle h, to the reader/writer the
\* handle holds.
FileWrite(h, b) ==
    LET f == files[h]
        r == WriterWrite(IF f.stale THEN ClosedWriter ELSE writer, archive, b)
    IN  IF f.isClosed
        THEN /\ ret' = Return("Write", f.name, f.flag, "ErrAlreadyClosed", h)
             /\ UNCHANGED <<fs, writer, archive, files, now>>
        ELSE /\ ret' = Return("Write", f.name, f.flag, r.err, h)
             /\ archive' = r.archive
             /\ files' = IF r.err = "nil"
                         THEN [files EXCEPT ![h].written = Append(@, b)]
                         ELSE files
             /\ UNCHANGED <<fs, writer, now>>

\* file.Close of handle h: closeNotify runs once, the handle is closed
\* whatever it returns.
FileClose(h) ==
    LET f == files[h]
        c == closeFunc(fs, writer, f.flag)
    IN  IF f.isClosed
        THEN /\ ret' = Return("Close", f.name, f.flag, "ErrAlreadyClosed", h)
             /\ UNCHANGED <<fs, writer, archive, files, now>>
        ELSE /\ ret' = Return("Close", f.name, f.flag, c.err, h)
             /\ fs' = c.fs
             /\ writer' = c.writer
             /\ files' = [files EXCEPT ![h].isClosed = TRUE]
             /\ UNCHANGED <<archive, now>>

\* ------------------------------------------------------- specifications
\* The callers of the locked facade, and a caller that is in no operation.
Callers == 1..MaxCallers
Idle == [at |-> "idle", op |-> "none", path |-> <<>>]

\* One caller, one operation at a time: no lock is taken and no caller is
\* inside an operation of the locked facade.
OneCaller == UNCHANGED <<lock, pc>>

\* New(fs, path) on an empty backing file: nothing is opened.
Init ==
    /\ fs = [rw |-> FALSE, f |-> FALSE, fileWriteModeOpen |-> FALSE,
             underlying |-> 0]
    /\ writer = NilWriter
    /\ archive = <<>>
    /\ files = <<>>
    /\ now = 1
    /\ ret = [op |-> "New", path |-> <<>>, flag |-> {}, err |-> "nil",
              val |-> 0, n |-> 0]
    /\ lock = 0
    /\ pc = [c \in Callers |-> Idle]

\* The readings of the clock an operation can get: the time does not go back.
Ticks == {t \in {now, now + 1} : t <= MaxClock}

\* The bounds of a specification: a step that would take the archive past
\* maxLog records, or an entry past maxData bytes, is not taken.
Within(maxLog, maxData) ==
    /\ Len(archive') <= maxLog
    /\ \A k \in 1..Len(archive') : Len(archive'[k].data) <= maxData

\* Every specification below is one caller taking, one after another, any
\* operation of the facade or of a handle it holds; they differ in the sets
\* the arguments are drawn from.

\* The writer's life: one name; handles opened with and without O_WRONLY;
\* a clock that stands still.
WPaths == {RawPath(FALSE, <<"a">>), RawPath(TRUE, <<"x", "..", "a">>)}
WFlags == {O_CREATE \cup O_TRUNC, O_CREATE}
WModes == {"0644"}
WBytes == {1}

NextW ==
    \/ \E p \in WPaths, t \in {now} : Create(p, t, "ok") /\ Within(MaxLog, MaxData) /\ OneCaller
    \/ \E p \in WPaths : Open(p, "ok") /\ OneCaller
    \/ \E p \in WPaths, fl \in WFlags, m \in WModes, t \in {now} :
          OpenFile(p, fl, m, t, "ok") /\ Within(MaxLog, MaxData) /\ OneCaller
    \/ \E p \in WPaths : Stat(p, "ok") /\ OneCaller
    \/ \E p \in WPaths : ReadDir(p, "ok") /\ OneCaller
    \/ \E p \in WPaths : MkdirAll(p, "ok") /\ OneCaller
    \/ \E p \in WPaths, t \in {now} : Remove(p, t, "ok") /\ Within(MaxLog, MaxData) /\ OneCaller
    \/ Rename /\ OneCaller
    \/ Sync("ok") /\ OneCaller
    \/ \E h \in 1..Len(files), b \in WBytes : FileWrite(h, b) /\ Within(MaxLog, MaxData) /\ OneCaller
    \/ \E h \in 1..Len(files) : FileClose(h) /\ OneCaller

SpecW == Init /\ [][NextW]_vars

\* Entries and Stat: a name and a name below it, and the root.
SPaths == {RawPath(FALSE, <<"a">>), RawPath(TRUE, <<"a", "b">>), RawPath(TRUE, <<>>)}
SCreates == {p \in SPaths : p.segs # <<>>}
SFlags == {O_CREATE}
SModes == {DefaultMode}
SBytes == {1}

NextS ==
    \/ \E p \in SCreates, t \in {now} : Create(p, t, "ok") /\ Within(MaxLogS, MaxData) /\ OneCaller
    \/ \E p \in SPaths : Open(p, "ok") /\ OneCaller
    \/ \E p \in SCreates, fl \in SFlags, m \in SModes, t \in {now} :
          OpenFile(p, fl, m, t, "ok") /\ Within(MaxLogS, MaxData) /\ OneCaller
    \/ \E p \in SPaths : Stat(p, "ok") /\ OneCaller
    \/ \E p \in SPaths : ReadDir(p, "ok") /\ OneCaller
    \/ \E p \in SPaths : MkdirAll(p, "ok") /\ OneCaller
    \/ \E p \in SPaths, t \in {now} : Remove(p, t, "ok") /\ Within(MaxLogS, MaxData) /\ OneCaller
    \/ Rename /\ OneCaller
    \/ Sync("ok") /\ OneCaller
    \/ \E h \in 1..Len(files), b \in SBytes : FileWrite(h, b) /\ Within(MaxLogS, MaxData) /\ OneCaller
    \/ \E h \in 1..Len(files) : FileClose(h) /\ OneCaller

SpecS == Init /\ [][NextS]_vars

\* The directory view: names at two depths below "a", a clock that moves.
DCreates == {RawPath(TRUE, <<"a", "b", "c">>), RawPath(FALSE, <<"a", "d">>)}
DPaths ==
    DCreates \cup
    {RawPath(TRUE, <<>>), RawPath(FALSE, <<"a">>), RawPath(FALSE, <<"a", "b">>)}
DFlags == {O_RDWR \cup O_CREATE \cup O_TRUNC}
DModes == {DefaultMode}
DBytes == {1}

NextD ==
    \/ \E p \in DCreates, t \in Ticks : Create(p, t, "ok") /\ Within(MaxLogD, MaxData) /\ OneCaller
    \/ \E p \in DPaths : Open(p, "ok") /\ OneCaller
    \/ \E p \in DCreates, fl \in DFlags, m \in DModes, t \in Ticks :
          OpenFile(p, fl, m, t, "ok") /\ Within(MaxLogD, MaxData) /\ OneCaller
    \/ \E p \in DPaths : Stat(p, "ok") /\ OneCaller
    \/ \E p \in DPaths : ReadDir(p, "ok") /\ OneCaller
    \/ \E p \in DPaths : MkdirAll(p, "ok") /\ OneCaller
    \/ \E p \in DPaths, t \in Ticks : Remove(p, t, "ok") /\ Within(MaxLogD, MaxData) /\ OneCaller
    \/ Rename /\ OneCaller
    \/ Sync("ok") /\ OneCaller
    \/ \E h \in 1..Len(files), b \in DBytes : FileWrite(h, b) /\ Within(MaxLogD, MaxData) /\ OneCaller
    \/ \E h \in 1..Len(files) : FileClose(h) /\ OneCaller

SpecD == Init /\ [][NextD]_vars

\* The session over a backing store that can fail: one name, and every
\* operation with every outcome of the store.
FPaths == {RawPath(FALSE, <<"a">>)}
FFlags == {O_CREATE}
FModes == {DefaultMode}
FBytes == {1}

NextF ==
    \/ \E p \in FPaths, t \in {now}, io \in OpenOutcomes :
          Create(p, t, io) /\ Within(MaxLogF, MaxData) /\ OneCaller
    \/ \E p \in FPaths, io \in OpenOutcomes : Open(p, io) /\ OneCaller
    \/ \E p \in FPaths, fl \in FFlags, m \in FModes, t \in {now}, io \in OpenOutcomes :
          OpenFile(p, fl, m, t, io) /\ Within(MaxLogF, MaxData) /\ OneCaller
    \/ \E p \in FPaths, io \in OpenOutcomes : Stat(p, io) /\ OneCaller
    \/ \E p \in FPaths, io \in OpenOutcomes : ReadDir(p, io) /\ OneCaller
    \/ \E p \in FPaths, io \in OpenOutcomes : MkdirAll(p, io) /\ OneCaller
    \/ \E p \in FPaths, t \in {now}, io \in OpenOutcomes :
          Remove(p, t, io) /\ Within(MaxLogF, MaxData) /\ OneCaller
    \/ Rename /\ OneCaller
    \/ \E io \in CloseOutcomes : Sync(io) /\ OneCaller
    \/ \E h \in 1..Len(files), b \in FBytes : FileWrite(h, b) /\ Within(MaxLogF, MaxData) /\ OneCaller
    \/ \E h \in 1..Len(files) : FileClose(h) /\ OneCaller

SpecF == Init /\ [][NextF]_vars

\* ---------------------------------------------- the locked facade, callers
\* src/filesystem.go keeps a mutex, sfs.lock, beside the session.  Several
\* callers run its operations at once; each operation is taken in the steps
\* other callers can come between: the call, sfs.lock.Lock(), ensureOpen,
\* the rest of the body, and the deferred sfs.lock.Unlock().

\* The operations that take sfs.lock.
LockedOps == {"Open", "Stat", "ReadDir", "MkdirAll", "Remove"}
LPaths == {RawPath(FALSE, <<"a">>)}

\* A caller enters OpenFile (as Open), Stat, ReadDir, MkdirAll or Remove and
\* stands before sfs.lock.Lock().
Call(c, op, raw) ==
    /\ pc[c] = Idle
    /\ pc' = [pc EXCEPT ![c] = [at |-> "lock", op |-> op, path |-> raw]]
    /\ UNCHANGED <<fs, writer, archive, files, now, ret, lock>>

\* sfs.lock.Lock(): waits until the mutex is free, then holds it.
Lock(c) ==
    /\ pc[c].at = "lock"
    /\ lock = 0
    /\ lock' = c
    /\ pc' = [pc EXCEPT ![c].at = "open"]
    /\ UNCHANGED <<fs, writer, archive, files, now, ret>>

\* The caller's sfs.ensureOpen(), under the mutex.
EnsureOpen(c) ==
    LET o == ensureOpen(fs, writer, "ok")
    IN  /\ pc[c].at = "open"
        /\ fs' = o.fs
        /\ writer' = o.writer
        /\ pc' = [pc EXCEPT ![c].at = "use"]
        /\ UNCHANGED <<archive, files, now, ret, lock>>

\* The rest of the operation, from sfs.getIndex() on: it goes through
\* sfs.rw, and sfs.rw.Index() on the nil reader/writer a Close has left
\* behind is a nil pointer dereference.
Body(c) ==
    LET op == pc[c].op
        raw == pc[c].path
    IN  /\ pc[c].at = "use"
        /\ IF ~fs.rw
           THEN /\ ret' = Return(op, <<>>, {}, "panic", 0)
                /\ UNCHANGED <<fs, writer, archive, files, now>>
           ELSE IF op = "Open" THEN OpenFile(raw, O_RDONLY, "0", now, "ok")
           ELSE IF op = "Stat" THEN Stat(raw, "ok")
           ELSE IF op = "ReadDir" THEN ReadDir(raw, "ok")
           ELSE IF op = "MkdirAll" THEN MkdirAll(raw, "ok")
           ELSE Remove(raw, now, "ok")
        /\ pc' = [pc EXCEPT ![c].at = "unlock"]
        /\ UNCHANGED lock

\* The deferred sfs.lock.Unlock().
Unlock(c) ==
    /\ pc[c].at = "unlock"
    /\ lock' = 0
    /\ pc' = [pc EXCEPT ![c] = Idle]
    /\ UNCHANGED <<fs, writer, archive, files, now, ret>>

\* A caller enters sivaFS.Close, which is sfs.ensureClosed() and takes no
\* lock.
CallClose(c) ==
    /\ pc[c] = Idle
    /\ pc' = [pc EXCEPT ![c] = [at |-> "close", op |-> "Close", path |-> <<>>]]
    /\ UNCHANGED <<fs, writer, archive, files, now, ret, lock>>

\* The first half of ensureClosed: return when sfs.rw is nil, otherwise
\* sfs.rw.Close(), and return its error if it has one.
CloseRw(c) ==
    LET k == rwClose(writer, "ok")
    IN  /\ pc[c].at = "close"
        /\ IF ~fs.rw
           THEN /\ ret' = Return("Close", <<>>, {}, "nil", 0)
                /\ pc' = [pc EXCEPT ![c] = Idle]
                /\ UNCHANGED writer
           ELSE /\ writer' = k.writer
                /\ IF k.err # "nil"
                   THEN /\ ret' = Return("Close", <<>>, {}, k.err, 0)
                        /\ pc' = [pc EXCEPT ![c] = Idle]
                   ELSE /\ pc' = [pc EXCEPT ![c].at = "release"]
                        /\ UNCHANGED ret
        /\ UNCHANGED <<fs, archive, files, now, lock>>

\* The second half of ensureClosed: sfs.rw = nil, f := sfs.f, sfs.f = nil,
\* f.Close().  When another Close has released the session in between, f is
\* nil and f.Close() is a nil dereference.
Release(c) ==
    /\ pc[c].at = "release"
    /\ IF fs.f
       THEN /\ fs' = [fs EXCEPT !.rw = FALSE, !.f = FALSE, !.underlying = @ - 1]
            /\ writer' = NilWriter
            /\ ret' = Return("Close", <<>>, {}, "nil", 0)
       ELSE /\ fs' = [fs EXCEPT !.rw = FALSE]
            /\ ret' = Return("Close", <<>>, {}, "panic", 0)
            /\ UNCHANGED writer
    /\ pc' = [pc EXCEPT ![c] = Idle]
    /\ UNCHANGED <<archive, files, now, lock>>

NextL ==
    \/ \E c \in Callers, op \in LockedOps, p \in LPaths : Call(c, op, p)
    \/ \E c \in Callers : Lock(c)
    \/ \E c \in Callers : EnsureOpen(c)
    \/ \E c \in Callers : Body(c)
    \/ \E c \in Callers : Unlock(c)
    \/ \E c \in Callers : CallClose(c)
    \/ \E c \in Callers : CloseRw(c)
    \/ \E c \in Callers : Release(c)

SpecL == Init /\ [][NextL]_vars

\* -------------------------------------------- the facade without a lock
\* src/unnamed/part_000 has no mutex.  Several callers run Create at once;
\* a Create is taken in the steps other callers can come between: the call,
\* ensureOpen, the test of fs.fileWriteModeOpen, and createFile, whose
\* deferred assignment sets the flag.

CPaths == {RawPath(FALSE, <<"a">>)}

\* A caller enters Create, which is OpenFile with O_WRONLY|O_CREATE|O_TRUNC.
CallCreate(c, raw) ==
    /\ pc[c] = Idle
    /\ pc' = [pc EXCEPT ![c] = [at |-> "ensureOpen", op |-> "Create",
                                path |-> raw]]
    /\ UNCHANGED <<fs, writer, archive, files, now, ret, lock>>

\* The caller's fs.ensureOpen().
CreateEnsureOpen(c) ==
    LET o == ensureOpen(fs, writer, "ok")
    IN  /\ pc[c].at = "ensureOpen"
        /\ fs' = o.fs
        /\ writer' = o.writer
        /\ pc' = [pc EXCEPT ![c].at = "busy"]
        /\ UNCHANGED <<archive, files, now, ret, lock>>

\* The test of fs.fileWriteModeOpen: the caller returns
\* ErrFileWriteModeAlreadyOpen when it is set and goes on to createFile
\* when it is not.
CreateBusy(c) ==
    /\ pc[c].at = "busy"
    /\ IF fs.fileWriteModeOpen
       THEN /\ ret' = Return("OpenFile", normalizePath(pc[c].path), CreateFlag,
                             "ErrFileWriteModeAlreadyOpen", 0)
            /\ pc' = [pc EXCEPT ![c] = Idle]
       ELSE /\ pc' = [pc EXCEPT ![c].at = "createFile"]
            /\ UNCHANGED ret
    /\ UNCHANGED <<fs, writer, archive, files, now, lock>>

\* The caller's fs.createFile(path, flag, mode): the header is written, the
\* handle is returned and the flag is set.
CreateGrant(c) ==
    LET path == normalizePath(pc[c].path)
        k == createFile(fs, writer, archive, files, path, CreateFlag,
                        DefaultMode, now)
    IN  /\ pc[c].at = "createFile"
        /\ ret' = Return("OpenFile", path, CreateFlag, k.err, k.val)
        /\ fs' = k.fs
        /\ writer' = k.writer
        /\ archive' = k.archive
        /\ files' = k.files
        /\ pc' = [pc EXCEPT ![c] = Idle]
        /\ UNCHANGED <<now, lock>>

NextC ==
    \/ \E c \in Callers, p \in CPaths : CallCreate(c, p)
    \/ \E c \in Callers : CreateEnsureOpen(c)
    \/ \E c \in Callers : CreateBusy(c)
    \/ \E c \in Callers : CreateGrant(c) /\ Within(MaxLog, MaxData)
    \/ \E h \in 1..Len(files) : FileClose(h) /\ OneCaller

SpecC == Init /\ [][NextC]_vars

\* ------------------------------------------------- what the claims speak of
\* The handles not yet closed.
Unclosed == {h \in 1..Len(files) : ~files[h].isClosed}

\* The most recently appended record named name, 0 when there is none.
LastRec(name) ==
    IF \E k \in 1..Len(archive) : archive[k].name = name
    THEN CHOOSE k \in 1..Len(archive) :
            /\ archive[k].name = name
            /\ \A j \in (k + 1)..Len(archive) : archive[j].name # name
    ELSE 0

\* name has an entry and its most recent record is not a tombstone.
IsLive(name) == LastRec(name) # 0 /\ ~archive[LastRec(name)].deleted

\* name's most recent record is a tombstone: removed and not created again.
IsRemoved(name) == LastRec(name) # 0 /\ archive[LastRec(name)].deleted

LiveNames == {archive[k].name : k \in {j \in 1..Len(archive) : IsLive(archive[j].name)}}

\* d is a proper ancestor of q.
Above(d, q) == Len(q) > Len(d) /\ SubSeq(q, 1, Len(d)) = d

\* q is one segment below d (in the root: a name without a slash).
ChildOf(q, d) ==
    /\ q # d
    /\ \/ Len(q) = Len(d) + 1 /\ SubSeq(q, 1, Len(d)) = d
       \/ d = <<>> /\ Len(q) <= 1

IsOpen(r) == r.op = "OpenFile" /\ r.flag = O_RDONLY

\* ------------------------------------------------------------------ C1
\* C1: at most one write handle is unclosed at any time, and an OpenFile
\* with O_CREATE issued while a write handle returned earlier is still
\* unclosed returns no handle and appends nothing; with O_TRUNC too (Create)
\* its error is ErrFileWriteModeAlreadyOpen.
C1_SingleWriter ==
    /\ Cardinality(Unclosed) <= 1
    /\ (/\ ret.op = "OpenFile"
        /\ Has(ret.flag, O_CREATE)
        /\ \E h \in Unclosed : h # ret.val)
       => /\ ret.val = 0
          /\ Len(archive) = ret.n
          /\ Has(ret.flag, O_TRUNC) => ret.err = "ErrFileWriteModeAlreadyOpen"

\* A Create was rejected as busy while a handle is unclosed.
C1_Witness ==
    /\ ret.op = "OpenFile"
    /\ ret.flag = CreateFlag
    /\ ret.err = "ErrFileWriteModeAlreadyOpen"
    /\ Unclosed # {}

\* ------------------------------------------------------------------ C2
\* C2: when every write handle handed out before was created by Create and
\* has been closed, a Create succeeds, whatever was done in between.
C2_CreateAfterClose ==
    (/\ ret.op = "OpenFile"
     /\ ret.flag = CreateFlag
     /\ \E h \in 1..Len(files) : h # ret.val
     /\ \A h \in 1..Len(files) :
           h # ret.val => files[h].isClosed /\ files[h].flag = CreateFlag)
    => ret.err = "nil"

\* ------------------------------------------------------------------ C3
\* C3: Create(p), writes through the handle, its Close (no other header
\* appended in between or since), then Open(p) and a read to the end: the
\* bytes read are exactly the bytes written, the empty sequence included.
C3_RoundTrip ==
    IsOpen(ret) =>
        \A h \in 1..Len(files) :
            (/\ files[h].name = ret.path
             /\ files[h].isClosed
             /\ files[h].rec = Len(archive))
            => ret.err = "nil" /\ ret.val = files[h].written

\* A round trip of a non-empty sequence has been read back.
C3_Witness ==
    /\ IsOpen(ret)
    /\ \E h \in 1..Len(files) :
          /\ files[h].name = ret.path
          /\ files[h].isClosed
          /\ files[h].rec = Len(archive)
          /\ files[h].written # <<>>
          /\ ret.val = files[h].written

\* ------------------------------------------------------------------ C4
\* C4: with every write handle closed, Open(p) resolves to the most recently
\* appended record named p: it returns that record's bytes, and fails with
\* os.ErrNotExist when that record is a tombstone or there is none.
C4_LastWriteWins ==
    (IsOpen(ret) /\ Unclosed = {}) =>
        IF IsLive(ret.path)
        THEN /\ ret.err = "nil"
             /\ ret.val = archive[LastRec(ret.path)].data
        ELSE ret.err = "ErrNotExist"

\* Open returned the latest bytes of a name that has an older record with
\* other bytes.
C4_Witness ==
    /\ IsOpen(ret)
    /\ Unclosed = {}
    /\ ret.err = "nil"
    /\ \E j \in 1..Len(archive) :
          /\ archive[j].name = ret.path
          /\ ~archive[j].deleted
          /\ j < LastRec(ret.path)
          /\ archive[j].data # ret.val

\* ------------------------------------------------------------------ C5
\* C5: while the handle a create returned for p is unclosed, has written
\* nothing and no header has been appended since, Stat(p) succeeds and
\* reports a file named p with the mode given to the create.
C5_StatAfterCreate ==
    ret.op = "Stat" =>
        \A h \in Unclosed :
            (/\ files[h].name = ret.path
             /\ files[h].rec = Len(archive)
             /\ files[h].written = <<>>)
            => /\ ret.err = "nil"
               /\ ~ret.val.isDir
               /\ ret.val.name = files[h].name
               /\ ret.val.mode = files[h].mode

\* Stat right after an OpenFile that created the path with mode 0644.
C5_Witness ==
    /\ ret.op = "Stat"
    /\ ret.err = "nil"
    /\ \E h \in Unclosed :
          /\ files[h].name = ret.path
          /\ files[h].rec = Len(archive)
          /\ files[h].written = <<>>
          /\ files[h].mode = "0644"
          /\ ret.val.mode = "0644"

\* ------------------------------------------------------------------ C6
\* C6 as stated: once p is removed and until it is created again, Stat(p)
\* and Open(p) fail with os.ErrNotExist and no ReadDir lists p among its
\* files.
C6_RemovedIsGone ==
    /\ ((ret.op = "Stat" \/ IsOpen(ret)) /\ IsRemoved(ret.path))
       => ret.err = "ErrNotExist"
    /\ (ret.op = "ReadDir" /\ ret.err = "nil")
       => \A i \in 1..Len(ret.val) :
             ~ret.val[i].isDir => ~IsRemoved(ret.val[i].name)

\* C6, amended: once p is removed and until it is created again, Open(p)
\* fails with os.ErrNotExist, Stat(p) reports no file (it fails with
\* os.ErrNotExist, or reports a directory when a live entry lies one segment
\* below p), and no ReadDir lists p among its files.
C6_RemovedIsNoFile ==
    /\ (IsOpen(ret) /\ IsRemoved(ret.path)) => ret.err = "ErrNotExist"
    /\ (ret.op = "Stat" /\ IsRemoved(ret.path))
       => IF \E q \in LiveNames : ChildOf(q, ret.path)
          THEN ret.err = "nil" /\ ret.val.isDir
          ELSE ret.err = "ErrNotExist"
    /\ (ret.op = "ReadDir" /\ ret.err = "nil")
       => \A i \in 1..Len(ret.val) :
             ~ret.val[i].isDir => ~IsRemoved(ret.val[i].name)

\* Stat of a removed path failed with os.ErrNotExist.
C6_Witness ==
    /\ ret.op = "Stat"
    /\ IsRemoved(ret.path)
    /\ ret.err = "ErrNotExist"

\* ------------------------------------------------------------------ C7
\* C7: Stat(p) is the info of the live entry named p when there is one (also
\* when entries lie below p); otherwise the directory info of p when the
\* directory synthesis finds a directory at p (a live entry one segment
\* below p); otherwise it fails with os.ErrNotExist.
C7_StatOrder ==
    ret.op = "Stat" =>
        LET p == ret.path
            k == LastRec(p)
        IN  IF IsLive(p)
            THEN /\ ret.err = "nil"
                 /\ ~ret.val.isDir
                 /\ ret.val.name = p
                 /\ ret.val.mode = archive[k].mode
                 /\ ret.val.modTime = archive[k].modTime
            ELSE IF \E q \in LiveNames : ChildOf(q, p)
            THEN /\ ret.err = "nil"
                 /\ ret.val.isDir
                 /\ ret.val.name = IF p = <<>> THEN <<".">> ELSE p
            ELSE ret.err = "ErrNotExist"

\* Stat reported a file at a path that also has a live entry below it.
C7_Witness ==
    /\ ret.op = "Stat"
    /\ ret.err = "nil"
    /\ ~ret.val.isDir
    /\ \E q \in LiveNames : ChildOf(q, ret.path)

\* ------------------------------------------------------------------ C8
\* C8: for a path d (the root aside) that names no live entry, Stat(d)
\* reports a directory exactly when some live entry has d as a proper
\* ancestor, at any depth.
C8_DirIffAncestor ==
    (ret.op = "Stat" /\ ret.path # <<>> /\ ~IsLive(ret.path)) =>
        ((ret.err = "nil" /\ ret.val.isDir)
            <=> \E q \in LiveNames : Above(ret.path, q))

\* ------------------------------------------------------------------ C9
\* C9: the directories ReadDir(d) returns are, once each, the paths d/s for
\* which some live entry lies below d/s at any depth.
C9_ReadDirDirs ==
    (ret.op = "ReadDir" /\ ret.err = "nil") =>
        LET d == ret.path
            isDirs == {i \in 1..Len(ret.val) : ret.val[i].isDir}
            want == {SubSeq(q, 1, Len(d) + 1) :
                        q \in {x \in LiveNames : Above(d, x) /\ Len(x) >= Len(d) + 2}}
        IN  /\ {ret.val[i].name : i \in isDirs} = want
            /\ Cardinality(isDirs) = Cardinality(want)

\* ----------------------------------------------------------------- C10
\* The latest modTime among the live entries strictly below d (0 if none).
LatestBelow(d) ==
    LET times == {archive[LastRec(q)].modTime : q \in {x \in LiveNames : Above(d, x)}}
    IN  IF times = {} THEN 0 ELSE CHOOSE t \in times : \A u \in times : u <= t

\* C10: the modTime of a directory, from Stat and from ReadDir, is the
\* latest modTime among the live entries strictly below it, at any depth.
C10_DirModTime ==
    /\ (ret.op = "Stat" /\ ret.err = "nil" /\ ret.val.isDir /\ ret.path # <<>>)
       => ret.val.modTime = LatestBelow(ret.path)
    /\ (ret.op = "ReadDir" /\ ret.err = "nil")
       => \A i \in 1..Len(ret.val) :
             ret.val[i].isDir => ret.val[i].modTime = LatestBelow(ret.val[i].name)

\* ----------------------------------------------------------------- C11
\* C11: ReadDir(d) returns its directories before its files, and the files
\* are, once each, the live entries one segment below d (in the root: the
\* names without a slash); entries nested deeper are not among the files.
C11_ReadDirFiles ==
    (ret.op = "ReadDir" /\ ret.err = "nil") =>
        LET d == ret.path
            n == Len(ret.val)
            isFiles == {i \in 1..n : ~ret.val[i].isDir}
        IN  /\ \A i, j \in 1..n :
                  (i < j /\ ~ret.val[i].isDir) => ~ret.val[j].isDir
            /\ {ret.val[i].name : i \in isFiles}
                  = {q \in LiveNames : ChildOf(q, d) /\ q # <<>>}
            /\ \A i, j \in isFiles : i # j => ret.val[i].name # ret.val[j].name

\* ReadDir returned a directory and then a file, while a live entry lies
\* deeper below the directory read.
C11_Witness ==
    /\ ret.op = "ReadDir"
    /\ ret.err = "nil"
    /\ Len(ret.val) = 2
    /\ ret.val[1].isDir
    /\ ~ret.val[2].isDir
    /\ \E q \in LiveNames : Len(q) >= Len(ret.path) + 2 /\ Above(ret.path, q)

\* ----------------------------------------------------------------- C12
\* C12: Remove(p) appends one tombstone for p and succeeds when a live entry
\* is named p; otherwise it fails with ENOTEMPTY when a live entry lies
\* below p, at any depth, and with os.ErrNotExist when none does; when it
\* fails it appends nothing.
C12_RemoveOutcomes ==
    [][ret'.op = "Remove" =>
          LET p == ret'.path
          IN  IF IsLive(p)
              THEN /\ ret'.err = "nil"
                   /\ Len(archive') = Len(archive) + 1
                   /\ SubSeq(archive', 1, Len(archive)) = archive
                   /\ archive'[Len(archive')].name = p
                   /\ archive'[Len(archive')].deleted
              ELSE IF \E q \in LiveNames : Above(p, q)
              THEN ret'.err = "ENOTEMPTY" /\ archive' = archive
              ELSE ret'.err = "ErrNotExist" /\ archive' = archive]_vars

\* ----------------------------------------------------------------- C13
\* C13: no path is at once a file and a directory: no live entry lies below
\* the name of another live entry (a create that would make it so fails).
C13_NoFileDirClash ==
    \A p, q \in LiveNames : ~Above(p, q)

\* ----------------------------------------------------------------- C14
\* C14: MkdirAll(p) fails with ENOTDIR exactly when p, normalised as the
\* other operations normalise their path, names a live entry; it succeeds
\* otherwise, and appends nothing either way.
C14_MkdirAllNormalised ==
    ret.op = "MkdirAll" =>
        /\ IF IsLive(normalizePath(ret.path))
           THEN ret.err = "ENOTDIR"
           ELSE ret.err = "nil"
        /\ Len(archive) = ret.n

\* ----------------------------------------------------------------- C15
\* C15: an OpenFile whose flags are neither O_RDONLY alone nor
\* O_WRONLY|O_CREATE|O_TRUNC alone fails with ErrNotSupported, returns no
\* handle and leaves the log and fileWriteModeOpen as they were.
C15_OnlyTwoModes ==
    [][(ret'.op = "OpenFile" /\ ret'.flag \notin {O_RDONLY, CreateFlag}) =>
          /\ ret'.err = "ErrNotSupported"
          /\ ret'.val = 0
          /\ files' = files
          /\ archive' = archive
          /\ fs'.fileWriteModeOpen = fs.fileWriteModeOpen]_vars

\* ----------------------------------------------------------------- C16
\* The names the filtered index of the session shows.
VisibleNames(log, current) ==
    {getIndex(log, current)[k].Name : k \in 1..Len(getIndex(log, current))}

\* C16: Sync on an unopened session returns nil and changes nothing; a Sync
\* that returns nil leaves the session unopened, with the reader/writer and
\* the backing file released, the log as it was and the same names visible
\* to the operation that reopens it.
C16_SyncIdempotent ==
    [][ret'.op = "Sync" =>
          /\ ~fs.rw => /\ ret'.err = "nil"
                       /\ UNCHANGED <<fs, writer, archive, files, now>>
          /\ ret'.err = "nil" =>
                /\ ~fs'.rw
                /\ ~fs'.f
                /\ fs'.underlying = 0
                /\ archive' = archive
                /\ VisibleNames(archive', writer'.current)
                      = VisibleNames(archive, writer.current)]_vars

\* A Sync returned nil after releasing a session that had a handle open on
\* a visible entry.
C16_Witness ==
    /\ ret.op = "Sync"
    /\ ret.err = "nil"
    /\ ~fs.rw
    /\ VisibleNames(archive, writer.current) # {}
    /\ \E h \in Unclosed : files[h].stale

\* ----------------------------------------------------------------- C17
\* The operations that open the session.
Opening == {"OpenFile", "Stat", "ReadDir", "MkdirAll", "Remove"}

\* C17: New opens nothing; the backing file is open exactly while the
\* session holds it, once; an opening operation that returns the error of
\* the backing store leaves the session unopened with no handle open, and
\* one that gets past ensureOpen leaves it open.
C17_LazyOpen ==
    /\ fs.underlying = IF fs.f THEN 1 ELSE 0
    /\ fs.rw <=> fs.f
    /\ ret.op = "New" => ~fs.rw
    /\ (ret.op \in Opening /\ ret.err = "EIO") => ~fs.rw
    /\ (/\ ret.op \in Opening
        /\ ret.err # "EIO"
        /\ ~(ret.op = "OpenFile" /\ Has(ret.flag, O_CREATE) /\ ~Has(ret.flag, O_TRUNC)))
       => fs.rw

\* Stat on an unopened session failed with the error of the backing store
\* after an earlier operation had opened and Sync had released the session.
C17_Witness ==
    /\ ret.op = "Stat"
    /\ ret.err = "EIO"
    /\ ~fs.rw
    /\ fs.underlying = 0
    /\ archive # <<>>

\* ----------------------------------------------------------------- C18
\* C18: fileWriteModeOpen is true exactly in the states in which a handle
\* returned by a create is unclosed.
C18_FlagIffUnclosed ==
    fs.fileWriteModeOpen <=> Unclosed # {}

\* ----------------------------------------------------------------- C19
\* The header of a record.
HeaderOf(r) == [name |-> r.name, mode |-> r.mode, modTime |-> r.modTime,
                deleted |-> r.deleted]

\* C19: every step keeps the records already in the log, with their headers,
\* and only adds bytes after the bytes a record has; an OpenFile that
\* creates appends exactly one entry header and a Remove that succeeds
\* exactly one tombstone; Stat, ReadDir, MkdirAll, Open, Rename and every
\* OpenFile or Remove that fails leave the log as it was; Rename fails with
\* ErrNotSupported and leaves the session as it was.
C19_AppendOnly ==
    [][/\ Len(archive') >= Len(archive)
       /\ \A k \in 1..Len(archive) :
             /\ HeaderOf(archive'[k]) = HeaderOf(archive[k])
             /\ Len(archive'[k].data) >= Len(archive[k].data)
             /\ SubSeq(archive'[k].data, 1, Len(archive[k].data)) = archive[k].data
       /\ (ret'.op = "OpenFile" /\ Has(ret'.flag, O_CREATE) /\ ret'.err = "nil")
          => /\ archive' = Append(archive, archive'[Len(archive')])
             /\ archive'[Len(archive')].name = ret'.path
             /\ ~archive'[Len(archive')].deleted
             /\ archive'[Len(archive')].data = <<>>
       /\ (ret'.op = "Remove" /\ ret'.err = "nil")
          => /\ archive' = Append(archive, archive'[Len(archive')])
             /\ archive'[Len(archive')].name = ret'.path
             /\ archive'[Len(archive')].deleted
             /\ archive'[Len(archive')].data = <<>>
       /\ (\/ ret'.op \in {"Stat", "ReadDir", "MkdirAll", "Rename"}
           \/ IsOpen(ret')
           \/ ret'.op \in {"OpenFile", "Remove"} /\ ret'.err # "nil")
          => archive' = archive
       /\ ret'.op = "Rename" => ret'.err = "ErrNotSupported" /\ fs' = fs]_vars

\* A Remove appended its tombstone after a record that is still in the log.
C19_Witness ==
    /\ ret.op = "Remove"
    /\ ret.err = "nil"
    /\ ret.n >= 1
    /\ Len(archive) = ret.n + 1
    /\ archive[Len(archive)].deleted


\* The caller is inside a section that reads or changes sfs.rw and sfs.f:
\* between Lock and Unlock of a locked operation, or inside ensureClosed
\* after its sfs.rw.Close().
InSession(c) == pc[c].at \in {"open", "use", "unlock", "release"}

\* C20: OpenFile, Stat, ReadDir, MkdirAll, Remove and the explicit Close are
\* serialized behind the session's one lock: no two callers are inside their
\* session-accessing sections at the same time, and no operation finds the
\* reader/writer or the backing file released under it by another caller.
C20_Serialized ==
    /\ \A c, d \in Callers : c # d => ~(InSession(c) /\ InSession(d))
    /\ ret.err # "panic"

\* ----------------------------------------------------------------- C21
\* C21: of the Creates that callers run at once, at most one gets a write
\* handle: no two write handles are unclosed at the same time, and a Create
\* that returns while another caller's write handle is unclosed has returned
\* ErrFileWriteModeAlreadyOpen and no handle.
C21_OneCreateWins ==
    /\ Cardinality(Unclosed) <= 1
    /\ (/\ ret.op = "OpenFile"
        /\ ret.flag = CreateFlag
        /\ Unclosed \ {ret.val} # {})
       => /\ ret.err = "ErrFileWriteModeAlreadyOpen"
          /\ ret.val = 0

\* ----------------------------------------------------------------- C22
\* C22: the session is never half-open: whatever the backing store answers
\* to an open or a close, fs.rw is set exactly when fs.f is set.
C22_NeverHalfOpen ==
    fs.rw = fs.f

\* Sync failed in f.Close(), after the reader/writer was closed, on a
\* session that had written to the archive: both fields are nil.
C22_Witness ==
    /\ ret.op = "Sync"
    /\ ret.err = "EIO"
    /\ ~fs.rw
    /\ ~fs.f
    /\ archive # <<>>

\* ----------------------------------------------------------------- C23
\* The index Stat and ReadDir would read now.
IndexNow == getIndex(archive, writer.current)

\* The paths at or above a record's name, the root left out, and the
\* directories ReadDir can be asked about: their parents.
PathsNow ==
    UNION {{SubSeq(archive[k].name, 1, j) : j \in 1..Len(archive[k].name)} :
              k \in 1..Len(archive)}
DirsNow == {FilepathDir(p) : p \in PathsNow}

\* What ReadDir(d) returns, as a set.
Listing(d) ==
    LET fileInfos == listFiles(IndexNow, d)
    IN  listDirs(IndexNow, d) \cup {fileInfos[k] : k \in 1..Len(fileInfos)}

\* C23: ReadDir and Stat agree.  Whatever ReadDir(d) returns, Stat of its
\* name succeeds and reports a directory for a directory and the same file
\* info for a file; and whatever path Stat reports as a file or a directory
\* is returned, as a file or a directory, by ReadDir of its parent.
C23_ListingAgreesWithStat ==
    /\ \A d \in DirsNow : \A i \in Listing(d) :
          LET s == StatOf(IndexNow, i.name)
          IN  /\ s.err = "nil"
              /\ IF i.isDir THEN s.val.isDir ELSE s.val = i
    /\ \A p \in PathsNow :
          LET s == StatOf(IndexNow, p)
          IN  s.err = "nil" =>
                 \E i \in Listing(FilepathDir(p)) :
                    i.name = p /\ i.isDir = s.val.isDir

====
